---- MODULE Spec2Model ----
(***************************************************************************)
(* Model of cloud_storage_app/app.py: the content-addressed upload path    *)
(* (upload_image), the ledger reconciler (cleanup_invalid_images) and the   *)
(* login path (authenticate_user), run by concurrent browser sessions over  *)
(* one shared MongoDB database and two object stores.  Every database or    *)
(* network call of a handler is one atomic step; the local computation      *)
(* between two calls belongs to the step of the call that precedes it.      *)
(* The object stores and the HTTP probe can fail.  In Spec the document     *)
(* database answers every call and a URL answers 200 or 404; SpecDbRaise    *)
(* adds database calls of upload_image that raise, and SpecAnyStatus a      *)
(* success status other than 200.                                           *)
(***************************************************************************)
EXTENDS Integers, Sequences, FiniteSets, TLC

(* ------------------------------ bounds --------------------------------- *)

\* total number of handler invocations in one behaviour
MaxOps == 3

\* concurrent Streamlit sessions (each runs one handler at a time)
Sessions == {"s1", "s2"}

(* ------------------------------ inputs --------------------------------- *)

\* user names as character sequences, so that str.isalnum is computed
alice == <<"a", "l">>
bob == <<"b", "0">>
carol == <<"c">>
badname == <<"a", "_">>

\* accounts present in the users collection at start (registered earlier)
Registered == {alice, bob}
Passwords == {"pw1", "pw2"}

\* uploaded byte buffers
Images == {"imgA", "imgB", "imgBig", "imgBad"}

\* uploaded file names, as character sequences
png_upper == <<"a", ".", "P", "N", "G">>
jpg_lower == <<"b", ".", "j", "p", "g">>
txt_name == <<"x", ".", "t", "x", "t">>
dot_name == <<".", "p", "n", "g">>
FileNames == {png_upper, jpg_lower, txt_name, dot_name}

Args(u, img, f, pw) ==
    [username |-> u, image |-> img, file_name |-> f, password |-> pw]

\* the calls of upload_image(username, image_data, file_name) considered
UploadInputs ==
    { Args(alice, "imgA", png_upper, "None"),
      Args(bob, "imgA", jpg_lower, "None"),
      Args(alice, "imgB", png_upper, "None"),
      Args(carol, "imgA", png_upper, "None"),
      Args(alice, "imgA", txt_name, "None"),
      Args(bob, "imgBad", dot_name, "None"),
      Args(alice, "imgBig", png_upper, "None"),
      Args(bob, "imgBad", jpg_lower, "None") }

\* the calls of cleanup_invalid_images(username) considered
CleanupInputs == {alice, bob, carol}

\* the calls of authenticate_user(username, password) considered
AuthInputs ==
    { Args(alice, "None", <<>>, "pw1"),
      Args(alice, "None", <<>>, "pw2"),
      Args(carol, "None", <<>>, "pw1"),
      Args(badname, "None", <<>>, "pw1") }

\* answers of requests.get(url): a status code, or NetErr for a raised
\* exception (no answer)
NetErr == 0
Statuses == {200, 404}

None == "None"
NoUrl == [backend |-> "none", name |-> "", version |-> 0]

(* --------------------------- pure functions ---------------------------- *)

AlnumChars ==
    {"a", "b", "c", "l", "p", "n", "g", "t", "x", "j",
     "A", "P", "N", "G", "0", "1"}

\* str.isalnum(): non-empty and every character alphanumeric
isalnum(s) == Len(s) > 0 /\ \A i \in 1..Len(s) : s[i] \in AlnumChars

\* str.lower() on one character
LowerChar(c) ==
    CASE c = "A" -> "a"
      [] c = "P" -> "p"
      [] c = "N" -> "n"
      [] c = "G" -> "g"
      [] OTHER -> c

lower(s) == [i \in 1..Len(s) |-> LowerChar(s[i])]

\* os.path.splitext(name)[1]: from the last dot on, unless that dot is
\* preceded by dots only (a leading dot starts no extension)
splitext_ext(s) ==
    LET dots == {i \in 1..Len(s) : s[i] = "."}
    IN  IF dots = {} THEN <<>>
        ELSE LET d == CHOOSE i \in dots : \A j \in dots : j <= i
             IN  IF \A k \in 1..(d - 1) : s[k] = "." THEN <<>>
                 ELSE SubSeq(s, d, Len(s))

AcceptedExts ==
    { <<".", "j", "p", "g">>, <<".", "j", "p", "e", "g">>,
      <<".", "p", "n", "g">>, <<".", "g", "i", "f">>,
      <<".", "b", "m", "p">> }

\* the test of upload_image on file_ext
ValidExt(file_name) == lower(splitext_ext(file_name)) \in AcceptedExts

\* hashlib.sha256(password).hexdigest()
hash_password(pw) ==
    CASE pw = "pw1" -> "5e88"
      [] pw = "pw2" -> "6cf6"

\* hashlib.md5(image_data).hexdigest()
calculate_hash(img) ==
    CASE img = "imgA" -> "0cc1"
      [] img = "imgB" -> "92eb"
      [] img = "imgBig" -> "4a8a"
      [] img = "imgBad" -> "d41d"

\* what Image.open finds in the buffer: decodable or not, and the size
Decodable(img) == img # "imgBad"
ImageSize(img) ==
    CASE img = "imgA" -> <<2000, 2000>>
      [] img = "imgB" -> <<2500, 4000>>
      [] img = "imgBig" -> <<5000, 5000>>
      [] OTHER -> <<0, 0>>

\* byte length of the JPEG the encoder writes for the image
JpegLen(img) ==
    CASE img = "imgA" -> 143360
      [] img = "imgB" -> 143361
      [] OTHER -> 200000

MaxPixels == 10000000

\* the None compress_and_reformat returns on failure
NoData == [of |-> None, len |-> 0]

\* variant of compress_and_reformat: an image of exactly MaxPixels pixels
\* is refused too
compress_and_reformat_AtLimit(img) ==
    IF ~Decodable(img) THEN NoData
    ELSE IF ImageSize(img)[1] * ImageSize(img)[2] >= MaxPixels THEN NoData
    ELSE [of |-> img, len |-> JpegLen(img)]

\* compress_and_reformat: the re-encoded buffer, or None when the image
\* does not decode or has more than MaxPixels pixels
compress_and_reformat(img) ==
    IF ~Decodable(img) THEN NoData
    ELSE IF ImageSize(img)[1] * ImageSize(img)[2] > MaxPixels THEN NoData
    ELSE [of |-> img, len |-> JpegLen(img)]

SizeThreshold == 140 * 1024

\* variant of choose_storage_backend: strict comparison
choose_storage_backend_Strict(compressed_data) ==
    IF compressed_data.len < SizeThreshold THEN "firebase" ELSE "cloudinary"

\* choose_storage_backend
choose_storage_backend(compressed_data) ==
    IF compressed_data.len <= SizeThreshold THEN "firebase" ELSE "cloudinary"

final_name_of(img_hash) == img_hash \o "__compressed.jpg"

\* the URLs a successful save can return, given the objects stored so far:
\* Firebase's public_url is a function of the object name; Cloudinary's
\* secure_url carries the version stamp of the upload (its time in
\* seconds), which is that of the previous upload of the name or a later one
SaveUrls(backend, name, stored) ==
    IF backend = "firebase"
    THEN {[backend |-> "firebase", name |-> name, version |-> 0]}
    ELSE LET n == Cardinality({x \in stored : x.backend = "cloudinary"
                                              /\ x.name = name})
         IN  {[backend |-> "cloudinary", name |-> name, version |-> v] :
                 v \in {IF n = 0 THEN 1 ELSE n, n + 1}}

\* variant of UploadRecord: the object name stored under "hash"
UploadRecord_NameAsHash(img_hash, url) ==
    [filename |-> final_name_of(img_hash), url |-> url,
     hash |-> final_name_of(img_hash)]

\* lines 214-218, 239-243: the record $addToSet puts in "uploads"
UploadRecord(img_hash, url) ==
    [filename |-> final_name_of(img_hash), url |-> url, hash |-> img_hash]

(* ------------------------ MongoDB collection ops ----------------------- *)

\* position of the document find_one / update_one / delete_one act on,
\* given the positions m of the documents matching the filter: the first
\* match of a collection scan, 0 when none matches
FirstMatch(m) ==
    IF m = {} THEN 0 ELSE CHOOSE i \in m : \A j \in m : i <= j

\* find_one({"username": u}) and find_one({"hash": h})
UserIdx(coll, u) == FirstMatch({i \in 1..Len(coll) : coll[i].username = u})
HashIdx(coll, h) == FirstMatch({i \in 1..Len(coll) : coll[i].hash = h})

RemoveAt(coll, i) ==
    [j \in 1..(Len(coll) - 1) |-> IF j < i THEN coll[j] ELSE coll[j + 1]]

\* hashes_collection.delete_one({"hash": h})
DeleteOne(coll, h) ==
    LET i == HashIdx(coll, h)
    IN  IF i = 0 THEN coll ELSE RemoveAt(coll, i)

InSeq(x, s) == \E i \in 1..Len(s) : s[i] = x

\* variant of AddToSet: $push, the record is appended whether present or not
AddToSet_Push(arr, rec) == Append(arr, rec)

\* $addToSet on an array field
AddToSet(arr, rec) == IF InSeq(rec, arr) THEN arr ELSE Append(arr, rec)

\* variant of UpdateAddToSet: every account takes the record
UpdateAddToSet_Many(coll, u, rec) ==
    [i \in 1..Len(coll) |-> [coll[i] EXCEPT !.uploads = AddToSet(@, rec)]]

\* users.update_one({"username": u}, {"$addToSet": {"uploads": rec}})
UpdateAddToSet(coll, u, rec) ==
    LET i == UserIdx(coll, u)
    IN  IF i = 0 THEN coll
        ELSE [coll EXCEPT ![i].uploads = AddToSet(@, rec)]

\* users.update_one({"username": u}, {"$set": {"uploads": valid}})
UpdateSetUploads(coll, u, valid) ==
    LET i == UserIdx(coll, u)
    IN  IF i = 0 THEN coll
        ELSE [coll EXCEPT ![i].uploads = valid]

\* the uploads array get_user_images would read for u
Ledger(coll, u) ==
    IF UserIdx(coll, u) = 0 THEN <<>> ELSE coll[UserIdx(coll, u)].uploads

\* the branch the probe loop of cleanup_invalid_images takes on an answer
Classify(status) ==
    IF status = NetErr THEN "skip"
    ELSE IF status = 200 THEN "keep"
    ELSE "delete"

(* -------------------------------- state -------------------------------- *)

VARIABLES
    users,          \* mongo_db["users"]: documents in natural order
    hashes,         \* mongo_db["image_hashes"]: documents in natural order
    storage,        \* URLs of the objects the two backends hold
    reach,          \* the status requests.get(url) currently answers, per URL
    pc,             \* per session: where its running handler stands
    call,           \* per session: the running handler and its arguments
    url,            \* per session: local `url` of upload_image
    uploads,        \* per session: user["uploads"] as read by cleanup
    idx,            \* per session: position of the probe loop
    valid_uploads,  \* per session: local `valid_uploads` of cleanup
    nops,           \* handler invocations so far
    last,           \* the call that returned in the step just taken, if any
    steps,          \* history: the stages the running handler has gone through
    solo,           \* history: no other session was active during the handler
    prior,          \* history: URLs earlier Success calls returned for the content
    fromEmpty,      \* history: index and ledger were empty when the upload began
    cl_base,        \* history: the cleanup began right after a finished cleanup
    cl_steady,      \* history: every URL answered the same throughout the cleanup
    cl_missed,      \* history: records uploads put in the ledger after the read
    succ,           \* history: per fingerprint, URLs returned with Success
    fresh           \* history: per user, the ledger is as a steady cleanup left it

dbvars == <<users, hashes, storage, reach>>
locals == <<url, uploads, idx, valid_uploads>>
hist == <<prior, fromEmpty, cl_base, cl_steady, cl_missed, succ, fresh>>
vars == <<users, hashes, storage, reach, pc, call, url, uploads, idx,
          valid_uploads, nops, last, steps, solo, prior, fromEmpty,
          cl_base, cl_steady, cl_missed, succ, fresh>>

AllNames == {alice, bob, carol, badname}
Hashes == {calculate_hash(img) : img \in Images}
AllUrls ==
    {[backend |-> b, name |-> final_name_of(h), version |-> v] :
        b \in {"firebase", "cloudinary"}, h \in Hashes, v \in 0..MaxOps}

Call(op, u, img, f, pw) ==
    [op |-> op, username |-> u, image |-> img, file_name |-> f,
     password |-> pw]
NoCall == Call("none", <<>>, None, <<>>, None)

Outcome(kind, u, detail) == [kind |-> kind, url |-> u, detail |-> detail]

\* the record of a returned call: who called what, what came back, and the
\* history of the call (for a cleanup: the records it read and did not keep)
Returned(p, c, res, st) ==
    [session |-> p, call |-> c, kind |-> res.kind, url |-> res.url,
     detail |-> res.detail, steps |-> st, solo |-> solo[p],
     prior |-> prior[p], fromEmpty |-> fromEmpty[p], base |-> cl_base[p],
     missed |-> cl_missed[p],
     dropped |-> {uploads[p][i] : i \in 1..Len(uploads[p])}
                   \ {valid_uploads[p][i] : i \in 1..Len(valid_uploads[p])}]
NoLast ==
    [session |-> "none", call |-> NoCall, kind |-> "none", url |-> NoUrl,
     detail |-> "", steps |-> {}, solo |-> FALSE, prior |-> {},
     fromEmpty |-> FALSE, base |-> FALSE, missed |-> {}, dropped |-> {}]

Init ==
    /\ users = [i \in 1..2 |->
                  [username |-> IF i = 1 THEN alice ELSE bob,
                   password_hash |-> hash_password("pw1"),
                   uploads |-> <<>>]]
    /\ hashes = <<>>
    /\ storage = {}
    /\ reach = [x \in AllUrls |-> 200]
    /\ pc = [p \in Sessions |-> "idle"]
    /\ call = [p \in Sessions |-> NoCall]
    /\ url = [p \in Sessions |-> NoUrl]
    /\ uploads = [p \in Sessions |-> <<>>]
    /\ idx = [p \in Sessions |-> 0]
    /\ valid_uploads = [p \in Sessions |-> <<>>]
    /\ nops = 0
    /\ last = NoLast
    /\ steps = [p \in Sessions |-> {}]
    /\ solo = [p \in Sessions |-> FALSE]
    /\ prior = [p \in Sessions |-> {}]
    /\ fromEmpty = [p \in Sessions |-> FALSE]
    /\ cl_base = [p \in Sessions |-> FALSE]
    /\ cl_steady = [p \in Sessions |-> FALSE]
    /\ cl_missed = [p \in Sessions |-> {}]
    /\ succ = [h \in Hashes |-> {}]
    /\ fresh = [u \in AllNames |-> FALSE]

(* ------------------------------ bookkeeping ---------------------------- *)

\* With(f, p, v): f with the value at p replaced by v
With(f, p, v) == [f EXCEPT ![p] = v]

\* session p takes a step that leaves it inside its handler at label l, with
\* the stages st run so far; every other session has been overtaken
Goto(p, l, c, st) ==
    /\ pc' = With(pc, p, l)
    /\ call' = With(call, p, c)
    /\ steps' = With(steps, p, st)
    /\ solo' = [q \in Sessions |->
                  q = p /\ (IF pc[p] = "idle"
                            THEN \A r \in Sessions : pc[r] = "idle"
                            ELSE solo[p])]
    /\ last' = NoLast

\* session p takes the step on which its handler returns; rec is the record
\* of the call.  The locals and the history of the call die with it.
Return(p, rec) ==
    /\ pc' = With(pc, p, "idle")
    /\ call' = With(call, p, NoCall)
    /\ steps' = With(steps, p, {})
    /\ solo' = [q \in Sessions |-> FALSE]
    /\ url' = With(url, p, NoUrl)
    /\ uploads' = With(uploads, p, <<>>)
    /\ idx' = With(idx, p, 0)
    /\ valid_uploads' = With(valid_uploads, p, <<>>)
    /\ last' = [rec EXCEPT
                  !.solo = IF pc[p] = "idle"
                           THEN \A r \in Sessions : pc[r] = "idle"
                           ELSE solo[p]]

img_hash(p) == calculate_hash(call[p].image)
final_name(p) == final_name_of(img_hash(p))

\* cleanups of user u that have read the ledger and not yet written it back
Cleaners(u) ==
    {q \in Sessions : call[q].op = "cleanup" /\ call[q].username = u}

(* ----------------------------- upload_image ---------------------------- *)

\* variant of IndexEntry: the url is derived from the object name instead
\* of being the one save returned
IndexEntry_NameUrl(h, u, by) ==
    [hash |-> h, filename |-> final_name_of(h),
     url |-> [backend |-> "firebase", name |-> final_name_of(h), version |-> 0],
     uploaded_by |-> by]

\* lines 230-235: the document insert_one puts in image_hashes
IndexEntry(h, u, by) ==
    [hash |-> h, filename |-> final_name_of(h), url |-> u, uploaded_by |-> by]

\* lines 202-226: hash, extension gate, dedup lookup, normalisation and
\* backend choice, up to the next database or network call
UploadStart(p, u, img, f) ==
    /\ pc[p] = "idle"
    /\ nops < MaxOps
    /\ nops' = nops + 1
    /\ UNCHANGED <<dbvars, cl_base, cl_steady, cl_missed, succ, fresh>>
    /\ LET c == Call("upload", u, img, f, None)
           h == calculate_hash(img)
           existing == HashIdx(hashes, h)
           compressed_data == compress_and_reformat(img)
           empty == hashes = <<>> /\ Ledger(users, u) = <<>>
           rec(kind, st) ==
               [Returned(p, c, Outcome(kind, NoUrl, ""), st) EXCEPT
                  !.prior = succ[h], !.fromEmpty = empty]
       IN  IF ~ValidExt(f)
           THEN /\ Return(p, rec("InvalidFormat", {"hash"}))
                /\ UNCHANGED <<prior, fromEmpty>>
           ELSE IF existing # 0
           THEN /\ Goto(p, "up_dup", c, {"hash", "find"})
                /\ url' = With(url, p, hashes[existing].url)
                /\ prior' = With(prior, p, succ[h])
                /\ fromEmpty' = With(fromEmpty, p, empty)
                /\ UNCHANGED <<uploads, idx, valid_uploads>>
           ELSE IF compressed_data = NoData
           THEN /\ Return(p, rec("ProcessingFailed",
                                 {"hash", "find", "compress"}))
                /\ UNCHANGED <<prior, fromEmpty>>
           ELSE /\ Goto(p, "up_save", c,
                        {"hash", "find", "compress", "choose"})
                /\ prior' = With(prior, p, succ[h])
                /\ fromEmpty' = With(fromEmpty, p, empty)
                /\ UNCHANGED locals

\* the ledger write of an upload by p: history of the cleanups it overtakes
LedgerWritten(p) ==
    LET u == call[p].username
        r == UploadRecord(img_hash(p), url[p])
    IN  /\ fresh' = With(fresh, u, FALSE)
        /\ cl_base' = [q \in Sessions |-> cl_base[q] /\ q \notin Cleaners(u)]
        /\ cl_missed' = [q \in Sessions |->
                           IF q \in Cleaners(u) /\ UserIdx(users, u) # 0
                              /\ ~InSeq(r, uploads[q])
                           THEN cl_missed[q] \cup {r} ELSE cl_missed[q]]

\* the stages after the caller's update_one: "ledger" when an account took it
Updated(p) ==
    steps[p] \cup {"update"} \cup
    (IF UserIdx(users, call[p].username) # 0 THEN {"ledger"} ELSE {})

\* lines 211-220: the duplicate branch
UploadDup(p) ==
    /\ pc[p] = "up_dup"
    /\ users' = UpdateAddToSet(users, call[p].username,
                               UploadRecord(img_hash(p), url[p]))
    /\ Return(p, Returned(p, call[p], Outcome("Duplicate", url[p], ""),
                          Updated(p)))
    /\ LedgerWritten(p)
    /\ prior' = With(prior, p, {})
    /\ fromEmpty' = With(fromEmpty, p, FALSE)
    /\ UNCHANGED <<hashes, storage, reach, nops, cl_steady, succ>>

\* a URL changed its answer: no cleanup in flight is steady any more, and
\* no ledger is as a steady cleanup left it
ReachChanged ==
    /\ fresh' = [u \in AllNames |-> FALSE]
    /\ cl_base' = [q \in Sessions |-> FALSE]
    /\ cl_steady' = [q \in Sessions |-> FALSE]

\* line 228: save on the chosen backend returns a URL
UploadSave(p) ==
    /\ pc[p] = "up_save"
    /\ LET compressed_data == compress_and_reformat(call[p].image)
           storage_backend == choose_storage_backend(compressed_data)
       IN  /\ \E x \in SaveUrls(storage_backend, final_name(p), storage) :
                 /\ url' = With(url, p, x)
                 /\ storage' = storage \cup {x}
                 /\ reach' = With(reach, x, 200)
           /\ Goto(p, "up_insert", call[p],
                   steps[p] \cup {"save_" \o storage_backend})
    /\ IF reach' # reach
       THEN ReachChanged
       ELSE UNCHANGED <<fresh, cl_base, cl_steady>>
    /\ UNCHANGED <<users, hashes, uploads, idx, valid_uploads, nops,
                   prior, fromEmpty, cl_missed, succ>>

\* variant of UploadSaveRaise: the index entry is written before save is
\* known to have succeeded
UploadSaveRaise_IndexFirst(p) ==
    /\ pc[p] = "up_save"
    /\ hashes' = Append(hashes,
                        [hash |-> img_hash(p), filename |-> final_name(p),
                         url |-> NoUrl, uploaded_by |-> call[p].username])
    /\ Return(p, Returned(p, call[p], Outcome("UploadFailed", NoUrl, "save"),
                          steps[p]))
    /\ prior' = With(prior, p, {})
    /\ fromEmpty' = With(fromEmpty, p, FALSE)
    /\ UNCHANGED <<users, storage, reach, nops, cl_base, cl_steady, cl_missed,
                   succ, fresh>>

\* lines 227-228, 247-248: save raises.  FirebaseStorage.save raises after
\* upload_from_string when make_public fails, so the object may be stored.
UploadSaveRaise(p) ==
    /\ pc[p] = "up_save"
    /\ LET compressed_data == compress_and_reformat(call[p].image)
           storage_backend == choose_storage_backend(compressed_data)
       IN  /\ \/ UNCHANGED storage
              \/ /\ storage_backend = "firebase"
                 /\ storage' = storage \cup SaveUrls("firebase", final_name(p), storage)
                 /\ storage' # storage
           /\ Return(p, Returned(p, call[p],
                                 Outcome("UploadFailed", NoUrl, "save"),
                                 steps[p] \cup {"save_" \o storage_backend}))
    /\ prior' = With(prior, p, {})
    /\ fromEmpty' = With(fromEmpty, p, FALSE)
    /\ UNCHANGED <<users, hashes, reach, nops, cl_base, cl_steady, cl_missed,
                   succ, fresh>>

\* lines 230-235: insert_one into image_hashes
UploadInsert(p) ==
    /\ pc[p] = "up_insert"
    /\ hashes' = Append(hashes,
                        IndexEntry(img_hash(p), url[p], call[p].username))
    /\ Goto(p, "up_update", call[p], steps[p] \cup {"insert"})
    /\ UNCHANGED <<users, storage, reach, locals, nops, hist>>

\* lines 237-246: $addToSet into the caller's uploads, then Success
UploadUpdate(p) ==
    /\ pc[p] = "up_update"
    /\ users' = UpdateAddToSet(users, call[p].username,
                               UploadRecord(img_hash(p), url[p]))
    /\ Return(p, Returned(p, call[p], Outcome("Success", url[p], ""),
                          Updated(p)))
    /\ succ' = With(succ, img_hash(p), succ[img_hash(p)] \cup {url[p]})
    /\ LedgerWritten(p)
    /\ prior' = With(prior, p, {})
    /\ fromEmpty' = With(fromEmpty, p, FALSE)
    /\ UNCHANGED <<hashes, storage, reach, nops, cl_steady>>

\* line 209: find_one raises; the call is outside the try block of lines
\* 227-248, so the exception leaves upload_image
UploadFindRaise(p, u, img, f) ==
    /\ pc[p] = "idle"
    /\ nops < MaxOps
    /\ ValidExt(f)
    /\ nops' = nops + 1
    /\ Return(p, [Returned(p, Call("upload", u, img, f, None),
                           Outcome("Raised", NoUrl, "find_one"),
                           {"hash", "find"})
                    EXCEPT !.prior = succ[calculate_hash(img)],
                           !.fromEmpty = hashes = <<>>
                                         /\ Ledger(users, u) = <<>>])
    /\ UNCHANGED <<dbvars, hist>>

\* lines 212-219: update_one of the duplicate branch raises; this call too
\* is outside the try block
UploadDupRaise(p) ==
    /\ pc[p] = "up_dup"
    /\ Return(p, Returned(p, call[p], Outcome("Raised", NoUrl, "update_one"),
                          steps[p] \cup {"update"}))
    /\ prior' = With(prior, p, {})
    /\ fromEmpty' = With(fromEmpty, p, FALSE)
    /\ UNCHANGED <<dbvars, nops, cl_base, cl_steady, cl_missed, succ, fresh>>

\* lines 230-235, 247-248: insert_one raises inside the try block
UploadInsertRaise(p) ==
    /\ pc[p] = "up_insert"
    /\ Return(p, Returned(p, call[p],
                          Outcome("UploadFailed", NoUrl, "insert_one"),
                          steps[p] \cup {"insert"}))
    /\ prior' = With(prior, p, {})
    /\ fromEmpty' = With(fromEmpty, p, FALSE)
    /\ UNCHANGED <<dbvars, nops, cl_base, cl_steady, cl_missed, succ, fresh>>

\* lines 237-244, 247-248: update_one raises inside the try block, after
\* the index entry has been inserted
UploadUpdateRaise(p) ==
    /\ pc[p] = "up_update"
    /\ Return(p, Returned(p, call[p],
                          Outcome("UploadFailed", NoUrl, "update_one"),
                          steps[p] \cup {"update"}))
    /\ prior' = With(prior, p, {})
    /\ fromEmpty' = With(fromEmpty, p, FALSE)
    /\ UNCHANGED <<dbvars, nops, cl_base, cl_steady, cl_missed, succ, fresh>>

(* ------------------------ cleanup_invalid_images ----------------------- *)

\* the label after the record at position i of a snapshot has been handled
AfterRecord(snapshot, i) ==
    IF i + 1 > Len(snapshot) THEN "cl_write" ELSE "cl_probe"

\* the probe loop moves on to the next record, or to the write-back
Advance(p, st) ==
    /\ idx' = With(idx, p, idx[p] + 1)
    /\ Goto(p, AfterRecord(uploads[p], idx[p]), call[p], st)
    /\ UNCHANGED <<url, uploads>>

\* variant of CleanupWriteBack: the records not kept are pulled from the
\* array as it is now
CleanupWriteBack_Pull(coll, u, snapshot, valid) ==
    LET i == UserIdx(coll, u)
        Stays(r) == InSeq(r, valid) \/ ~InSeq(r, snapshot)
    IN  IF i = 0 THEN coll
        ELSE [coll EXCEPT ![i].uploads = SelectSeq(@, Stays)]

\* variant of CleanupWriteBack: the kept records are pushed onto the array
CleanupWriteBack_Push(coll, u, snapshot, valid) ==
    LET i == UserIdx(coll, u)
    IN  IF i = 0 THEN coll
        ELSE [coll EXCEPT ![i].uploads = @ \o valid]

\* lines 177-180: what the final update_one leaves in the users collection
CleanupWriteBack(coll, u, snapshot, valid) == UpdateSetUploads(coll, u, valid)

\* lines 162-166: read the account; return when there is none
CleanupStart(p, u) ==
    /\ pc[p] = "idle"
    /\ nops < MaxOps
    /\ nops' = nops + 1
    /\ UNCHANGED <<dbvars, prior, fromEmpty, succ, fresh>>
    /\ LET c == Call("cleanup", u, None, <<>>, None)
           i == UserIdx(users, u)
       IN  IF i = 0
           THEN /\ Return(p, Returned(p, c,
                                      Outcome("CleanupDone", NoUrl, "no user"),
                                      {"find_user"}))
                /\ UNCHANGED <<cl_base, cl_steady, cl_missed>>
           ELSE /\ uploads' = With(uploads, p, users[i].uploads)
                /\ valid_uploads' = With(valid_uploads, p, <<>>)
                /\ idx' = With(idx, p, 1)
                /\ Goto(p, AfterRecord(users[i].uploads, 0), c, {"find_user"})
                /\ cl_base' = With(cl_base, p, fresh[u])
                /\ cl_steady' = With(cl_steady, p, TRUE)
                /\ cl_missed' = With(cl_missed, p, {})
                /\ UNCHANGED url

\* lines 168-175: requests.get on the record's URL answers `status` (the
\* URL's current status, or NetErr when the request raises) and the loop
\* takes its branch
CleanupProbe(p, status) ==
    /\ pc[p] = "cl_probe"
    /\ LET img == uploads[p][idx[p]]
           branch == Classify(status)
           st == steps[p] \cup {"probe"}
       IN  /\ status \in {reach[img.url], NetErr}
           /\ CASE branch = "keep" ->
                     /\ valid_uploads' = With(valid_uploads, p,
                                              Append(valid_uploads[p], img))
                     /\ Advance(p, st)
                [] branch = "delete" ->
                     /\ Goto(p, "cl_delete", call[p], st)
                     /\ UNCHANGED locals
                [] branch = "skip" ->
                     /\ UNCHANGED valid_uploads
                     /\ Advance(p, st)
           \* a request that raises is not the answer the URL gave the
           \* cleanup before: the run does not repeat that cleanup
           /\ cl_base' = With(cl_base, p, cl_base[p] /\ status # NetErr)
           /\ UNCHANGED cl_steady
    /\ UNCHANGED <<dbvars, nops, prior, fromEmpty, cl_missed, succ, fresh>>

\* variant of CleanupDelete: the deletion cascades to the records of the
\* fingerprint in every ledger
CleanupDelete_Cascade(p) ==
    /\ pc[p] = "cl_delete"
    /\ LET h == uploads[p][idx[p]].hash
           Other(r) == r.hash # h
       IN  /\ hashes' = DeleteOne(hashes, h)
           /\ users' = [i \in 1..Len(users) |->
                          [users[i] EXCEPT !.uploads = SelectSeq(@, Other)]]
           /\ IF hashes' # hashes
              THEN /\ succ' = With(succ, h, {})
                   /\ prior' = [q \in Sessions |->
                                  IF call[q].op = "upload"
                                     /\ calculate_hash(call[q].image) = h
                                  THEN {} ELSE prior[q]]
              ELSE UNCHANGED <<succ, prior>>
    /\ UNCHANGED valid_uploads
    /\ Advance(p, steps[p] \cup {"delete"})
    /\ UNCHANGED <<storage, reach, nops, fromEmpty, cl_base,
                   cl_steady, cl_missed, fresh>>

\* line 173: delete_one on the record's fingerprint
CleanupDelete(p) ==
    /\ pc[p] = "cl_delete"
    /\ LET h == uploads[p][idx[p]].hash
       IN  /\ hashes' = DeleteOne(hashes, h)
           /\ IF hashes' # hashes
              THEN /\ succ' = With(succ, h, {})
                   /\ prior' = [q \in Sessions |->
                                  IF call[q].op = "upload"
                                     /\ calculate_hash(call[q].image) = h
                                  THEN {} ELSE prior[q]]
              ELSE UNCHANGED <<succ, prior>>
    /\ UNCHANGED valid_uploads
    /\ Advance(p, steps[p] \cup {"delete"})
    /\ UNCHANGED <<users, storage, reach, nops, fromEmpty, cl_base,
                   cl_steady, cl_missed, fresh>>

\* lines 177-180: replace the uploads array by valid_uploads
CleanupWrite(p) ==
    /\ pc[p] = "cl_write"
    /\ users' = CleanupWriteBack(users, call[p].username, uploads[p],
                                 valid_uploads[p])
    /\ Return(p, Returned(p, call[p], Outcome("CleanupDone", NoUrl, ""),
                          steps[p] \cup {"write"}))
    /\ fresh' = With(fresh, call[p].username, cl_steady[p])
    /\ cl_base' = [q \in Sessions |->
                     q # p /\ cl_base[q]
                     /\ (cl_base[p] \/ call[q].username # call[p].username)]
    /\ cl_steady' = With(cl_steady, p, FALSE)
    /\ cl_missed' = With(cl_missed, p, {})
    /\ UNCHANGED <<hashes, storage, reach, nops, prior, fromEmpty, succ>>

(* --------------------------- authenticate_user ------------------------- *)

\* variant of AuthStart: a wrong password is stored as the account's new
\* password
AuthStart_Reset(p, u, pw) ==
    /\ pc[p] = "idle"
    /\ nops < MaxOps
    /\ nops' = nops + 1
    /\ UNCHANGED <<hashes, storage, reach, hist>>
    /\ LET c == Call("auth", u, None, <<>>, pw)
           i == UserIdx(users, u)
       IN  IF ~isalnum(u)
           THEN /\ Return(p, Returned(p, c, Outcome("AuthFalse", NoUrl, ""), {}))
                /\ UNCHANGED users
           ELSE IF i # 0
           THEN /\ Return(p, Returned(p, c,
                          Outcome(IF hash_password(pw) = users[i].password_hash
                                  THEN "AuthTrue" ELSE "AuthFalse", NoUrl, ""),
                          {"find_user"}))
                /\ users' = [users EXCEPT ![i].password_hash = hash_password(pw)]
           ELSE /\ Goto(p, "au_insert", c, {"find_user"})
                /\ UNCHANGED <<users, locals>>

\* lines 141-149: the isalnum gate, find_one and the password comparison
AuthStart(p, u, pw) ==
    /\ pc[p] = "idle"
    /\ nops < MaxOps
    /\ nops' = nops + 1
    /\ UNCHANGED <<dbvars, hist>>
    /\ LET c == Call("auth", u, None, <<>>, pw)
           i == UserIdx(users, u)
       IN  IF ~isalnum(u)
           THEN Return(p, Returned(p, c, Outcome("AuthFalse", NoUrl, ""), {}))
           ELSE IF i # 0
           THEN Return(p, Returned(p, c,
                          Outcome(IF hash_password(pw) = users[i].password_hash
                                  THEN "AuthTrue" ELSE "AuthFalse", NoUrl, ""),
                          {"find_user"}))
           ELSE /\ Goto(p, "au_insert", c, {"find_user"})
                /\ UNCHANGED locals

\* variant of AuthInsert: the password is stored as given
AuthInsert_RawPassword(p) ==
    /\ pc[p] = "au_insert"
    /\ users' = Append(users,
                       [username |-> call[p].username,
                        password_hash |-> call[p].password,
                        uploads |-> <<>>])
    /\ Return(p, Returned(p, call[p], Outcome("AuthTrue", NoUrl, ""),
                          steps[p] \cup {"insert_user"}))
    /\ UNCHANGED <<hashes, storage, reach, nops, hist>>

\* lines 151-156: insert_one of the new account
AuthInsert(p) ==
    /\ pc[p] = "au_insert"
    /\ users' = Append(users,
                       [username |-> call[p].username,
                        password_hash |-> hash_password(call[p].password),
                        uploads |-> <<>>])
    /\ Return(p, Returned(p, call[p], Outcome("AuthTrue", NoUrl, ""),
                          steps[p] \cup {"insert_user"}))
    /\ UNCHANGED <<hashes, storage, reach, nops, hist>>

(* ------------------------------ environment ---------------------------- *)

\* the URLs requests.get can be given (line 169): those of the records in
\* a ledger, and those a running cleanup has read and not yet probed
Probed ==
    UNION {{users[i].uploads[j].url : j \in 1..Len(users[i].uploads)} :
              i \in 1..Len(users)}
    \cup UNION {{uploads[p][j].url : j \in idx[p]..Len(uploads[p])} :
                   p \in {q \in Sessions : pc[q] \in {"cl_probe", "cl_delete"}}}

\* a stored object is removed from its backend: its URL answers st from
\* now on.  The removal shows in the answers of line 169 only, so it is
\* taken once the URL is one that line can be given.
Degrade(x, st) ==
    /\ x \in storage
    /\ x \in Probed
    /\ reach[x] = 200
    /\ st # 200
    /\ reach' = With(reach, x, st)
    /\ ReachChanged
    /\ last' = NoLast
    /\ UNCHANGED <<users, hashes, storage, pc, call, locals, nops,
                   steps, solo, prior, fromEmpty, cl_missed, succ>>

(* ---------------------------- specification ---------------------------- *)

Next ==
    \/ \E p \in Sessions, a \in UploadInputs :
          UploadStart(p, a.username, a.image, a.file_name)
    \/ \E p \in Sessions : UploadDup(p)
    \/ \E p \in Sessions : UploadSave(p)
    \/ \E p \in Sessions : UploadSaveRaise(p)
    \/ \E p \in Sessions : UploadInsert(p)
    \/ \E p \in Sessions : UploadUpdate(p)
    \/ \E p \in Sessions, u \in CleanupInputs : CleanupStart(p, u)
    \/ \E p \in Sessions, st \in Statuses \cup {NetErr} : CleanupProbe(p, st)
    \/ \E p \in Sessions : CleanupDelete(p)
    \/ \E p \in Sessions : CleanupWrite(p)
    \/ \E p \in Sessions, a \in AuthInputs :
          AuthStart(p, a.username, a.password)
    \/ \E p \in Sessions : AuthInsert(p)
    \/ \E x \in AllUrls : Degrade(x, 404)

Spec == Init /\ [][Next]_vars

\* a success status other than 200 that requests.get can be answered with
OtherSuccess == 204

\* the program in an environment whose URLs can also come to answer
\* OtherSuccess.  Line 170 tests status_code == 200, so the program takes
\* the same branch on OtherSuccess as on 404; the two environments differ
\* only for statements that speak of success statuses.
NextAnyStatus ==
    \/ Next
    \/ \E x \in AllUrls : Degrade(x, OtherSuccess)
    \/ \E p \in Sessions : CleanupProbe(p, OtherSuccess)

SpecAnyStatus == Init /\ [][NextAnyStatus]_vars

\* the program with a document database whose calls, in upload_image, can
\* raise as well as return
NextDbRaise ==
    \/ Next
    \/ \E p \in Sessions, a \in UploadInputs :
          UploadFindRaise(p, a.username, a.image, a.file_name)
    \/ \E p \in Sessions : UploadDupRaise(p)
    \/ \E p \in Sessions : UploadInsertRaise(p)
    \/ \E p \in Sessions : UploadUpdateRaise(p)

SpecDbRaise == Init /\ [][NextDbRaise]_vars

(* -------------------------------- claims ------------------------------- *)

SaveStages == {"save_firebase", "save_cloudinary"}
WriteStages == {"insert", "update", "ledger"}

\* an upload_image call with an accepted extension has just returned, and
\* some earlier call on the same bytes had returned Success before it began,
\* with no index entry of the fingerprint deleted since
ReturnedAfterSuccess ==
    /\ last.call.op = "upload"
    /\ ValidExt(last.call.file_name)
    /\ last.prior # {}

\* C1: an upload of bytes for which an earlier upload returned Success (and
\* whose index entry no cleanup deleted since) does not call save and
\* returns Duplicate with the URL that earlier call returned.
C1_DedupShortCircuit ==
    ReturnedAfterSuccess =>
        /\ last.kind = "Duplicate"
        /\ last.steps \cap SaveStages = {}
        /\ \A x \in last.prior : last.url = x

\* C3: the image_hashes collection never holds two entries with the same
\* fingerprint.
C3_OneEntryPerFingerprint ==
    \A i, j \in 1..Len(hashes) : hashes[i].hash = hashes[j].hash => i = j

\* C2: when save raises, upload_image returns UploadFailed and has changed
\* neither the index nor any ledger, on that step or on an earlier one of
\* the call.
C2_SaveRaiseNoPersist ==
    [][\A p \in Sessions :
          (pc[p] = "up_save" /\ pc'[p] = "idle") =>
              /\ last'.kind = "UploadFailed"
              /\ hashes' = hashes
              /\ users' = users
              /\ steps[p] \cap WriteStages = {}]_vars

\* a save has just raised in an upload that found no index entry
C2_Witness ==
    /\ last.kind = "UploadFailed"
    /\ last.detail = "save"
    /\ last.steps \cap SaveStages # {}

\* C4: after a cleanup of u has written back, no record it read and did not
\* keep (its probe answered a non-success status or raised) is in u's
\* ledger, and the index holds no entry for that record's fingerprint.
C4_CleanupPrunes ==
    (last.call.op = "cleanup" /\ "write" \in last.steps /\ last.solo) =>
        \A r \in last.dropped :
            /\ ~InSeq(r, Ledger(users, last.call.username))
            /\ HashIdx(hashes, r.hash) = 0

\* C5: a record that an upload (returning Success or Duplicate) put in u's
\* ledger after a cleanup of u had read the ledger is gone from the ledger
\* once that cleanup has written back.
C5_CleanupErasesAppend ==
    (last.call.op = "cleanup" /\ "write" \in last.steps) =>
        \A r \in last.missed : ~InSeq(r, Ledger(users, last.call.username))

\* a cleanup has written back over a record appended after its read, while
\* the URL of the record still answers 200
C5_Witness ==
    /\ last.call.op = "cleanup"
    /\ "write" \in last.steps
    /\ \E r \in last.missed :
          /\ reach[r.url] = 200
          /\ ~InSeq(r, Ledger(users, last.call.username))

\* C6: a cleanup of u that runs right after a finished cleanup of u, with no
\* upload by u and no change of any URL's answer in between, writes back
\* the ledger the first one left.
C6_CleanupIdempotent ==
    [][\A p \in Sessions :
          (pc[p] = "cl_write" /\ pc'[p] = "idle" /\ cl_base[p]) =>
              Ledger(users', call[p].username)
                  = Ledger(users, call[p].username)]_vars

\* the second of two cleanups in a row has written back a ledger that still
\* holds a record
C6_Witness ==
    /\ last.call.op = "cleanup"
    /\ "write" \in last.steps
    /\ last.base
    /\ Ledger(users, last.call.username) # <<>>

\* the save stages an upload of img may show, by the 140 KiB rule
RoutedStages(img) ==
    IF compress_and_reformat(img).len <= 143360 THEN {"save_firebase"}
    ELSE IF compress_and_reformat(img).len >= 143361 THEN {"save_cloudinary"}
    ELSE {}

\* C7: save is called on the compact variant (Firebase) when the normalized
\* payload has at most 143360 bytes and on the general variant (Cloudinary)
\* when it has 143361 bytes or more, and never on the other variant.
C7_BackendByLength ==
    /\ \A p \in Sessions :
          call[p].op = "upload" =>
              /\ steps[p] \cap SaveStages \subseteq RoutedStages(call[p].image)
              /\ pc[p] \in {"up_insert", "up_update"} =>
                     steps[p] \cap SaveStages = RoutedStages(call[p].image)
    /\ last.call.op = "upload" =>
          last.steps \cap SaveStages \subseteq RoutedStages(last.call.image)

\* one upload has saved a payload of exactly 143360 bytes and another one a
\* payload of 143361 bytes
C7_Witness ==
    \E p, q \in Sessions :
        /\ pc[p] = "up_insert" /\ JpegLen(call[p].image) = 143360
        /\ pc[q] = "up_insert" /\ JpegLen(call[q].image) = 143361

\* C8: an upload whose file name has no accepted extension returns
\* InvalidFormat without having computed the fingerprint or normalized the
\* image.
C8_RejectedBeforeHashing ==
    (last.call.op = "upload" /\ ~ValidExt(last.call.file_name)) =>
        /\ last.kind = "InvalidFormat"
        /\ last.steps \cap {"hash", "compress"} = {}

\* C9: when an upload by an existing user returns Success with no other
\* session active during the call, the index holds the entry {fingerprint,
\* fingerprint__compressed.jpg, url, user} and the user's ledger the record
\* {that name, url, fingerprint}; if index and ledger were empty before,
\* they now hold exactly that one entry and that one record.
C9_SuccessPersists ==
    LET u == last.call.username
        h == calculate_hash(last.call.image)
        name == h \o "__compressed.jpg"
    IN  (last.kind = "Success" /\ last.solo /\ UserIdx(users, u) # 0) =>
            /\ InSeq([hash |-> h, filename |-> name, url |-> last.url,
                      uploaded_by |-> u], hashes)
            /\ InSeq([filename |-> name, url |-> last.url, hash |-> h],
                     Ledger(users, u))
            /\ last.fromEmpty =>
                   Len(hashes) = 1 /\ Len(Ledger(users, u)) = 1

\* an upload by an existing user, alone, from an empty index and ledger,
\* has just returned Success
C9_Witness ==
    /\ last.kind = "Success"
    /\ last.solo
    /\ last.fromEmpty
    /\ UserIdx(users, last.call.username) # 0

\* C10: an upload that returns Duplicate changes nothing on its lookup step;
\* on its update step it leaves the index, both backends and every other
\* account as they were, and the caller's ledger (when the account exists)
\* holds a record with the URL of the entry that was found.
C10_DuplicateFrame ==
    [][\A p \in Sessions :
          /\ (pc[p] = "idle" /\ pc'[p] = "up_dup") =>
                /\ UNCHANGED <<users, hashes, storage>>
                /\ \E e \in {hashes[i] : i \in 1..Len(hashes)} :
                      /\ e.hash = calculate_hash(call'[p].image)
                      /\ e.url = url'[p]
          /\ (pc[p] = "up_dup" /\ pc'[p] = "idle") =>
                /\ last'.kind = "Duplicate"
                /\ last'.url = url[p]
                /\ UNCHANGED <<hashes, storage>>
                /\ Len(users') = Len(users)
                /\ \A i \in 1..Len(users) :
                      users[i].username # call[p].username =>
                          users'[i] = users[i]
                /\ UserIdx(users, call[p].username) # 0 =>
                      \E i \in 1..Len(Ledger(users', call[p].username)) :
                          Ledger(users', call[p].username)[i].url = url[p]]_vars

\* an existing user has just been answered Duplicate for content another
\* user uploaded
C10_Witness ==
    /\ last.kind = "Duplicate"
    /\ UserIdx(users, last.call.username) # 0
    /\ \E i \in 1..Len(hashes) :
          /\ hashes[i].url = last.url
          /\ hashes[i].uploaded_by # last.call.username
    /\ \E i \in 1..Len(Ledger(users, last.call.username)) :
          Ledger(users, last.call.username)[i].url = last.url

\* C11: a step on which upload_image returns InvalidFormat or
\* ProcessingFailed changes neither the index, nor any account, nor what
\* the backends store; InvalidFormat is returned for an extension outside
\* the accepted list, and ProcessingFailed for bytes that do not decode or
\* decode to more than 10,000,000 pixels.
C11_FailureChangesNothing ==
    [][LET img == last'.call.image
           ext == lower(splitext_ext(last'.call.file_name))
       IN  /\ last'.kind \in {"InvalidFormat", "ProcessingFailed"} =>
                 UNCHANGED <<users, hashes, storage>>
           /\ last'.kind = "InvalidFormat" => ext \notin AcceptedExts
           /\ last'.kind = "ProcessingFailed" =>
                 \/ ~Decodable(img)
                 \/ ImageSize(img)[1] * ImageSize(img)[2] > 10000000]_vars

\* a 5000x5000 image has just been answered ProcessingFailed while the
\* index, a ledger and a backend hold something
C11_Witness ==
    /\ last.kind = "ProcessingFailed"
    /\ last.call.image = "imgBig"
    /\ hashes # <<>>
    /\ storage # {}
    /\ \E i \in 1..Len(users) : users[i].uploads # <<>>

\* C12: authenticate_user for a username whose account (the one find_one
\* returns) stores another hash than that of the given password returns
\* False on that step and leaves the users collection, hence every stored
\* hash, every ledger and the set of accounts, as it was.
C12_WrongPasswordNoMutation ==
    [][LET u == last'.call.username
           i == UserIdx(users, u)
       IN  (/\ last'.call.op = "auth"
            /\ pc[last'.session] = "idle"
            /\ i # 0
            /\ users[i].password_hash # hash_password(last'.call.password)) =>
               /\ last'.kind = "AuthFalse"
               /\ users' = users]_vars

\* a wrong password for the account of "al", which has uploads, has just
\* been refused
C12_Witness ==
    /\ last.call.op = "auth"
    /\ last.kind = "AuthFalse"
    /\ last.call.username = alice
    /\ last.call.password = "pw2"
    /\ Ledger(users, alice) # <<>>

\* session p begins a call of authenticate_user on this step
BeginsAuth(p) ==
    /\ pc[p] = "idle"
    /\ \/ call'[p].op = "auth"
       \/ pc'[p] = "idle" /\ last'.session = p /\ last'.call.op = "auth"

\* the arguments of the call p begins on this step
BegunCall(p) == IF pc'[p] = "idle" THEN last'.call ELSE call'[p]

\* the step on which p's authenticate_user returns after its insert_one:
\* the account {username, hash of the password, empty ledger} has been
\* added and the call returns True
RegistersAccount(p) ==
    (pc[p] = "au_insert" /\ pc'[p] = "idle") =>
        /\ users' = Append(users,
                           [username |-> call[p].username,
                            password_hash |-> hash_password(call[p].password),
                            uploads |-> <<>>])
        /\ last'.call = call[p]
        /\ last'.kind = "AuthTrue"

\* C13 as stated: authenticate_user for any username that has no account
\* goes on to insert the account {username, hash of the password, empty
\* ledger} and returns True.
C13_AnyNewUsernameRegisters ==
    [][\A p \in Sessions :
          /\ (BeginsAuth(p) /\ UserIdx(users, BegunCall(p).username) = 0) =>
                 pc'[p] = "au_insert"
          /\ RegistersAccount(p)]_vars

\* C13 amended: authenticate_user for an alphanumeric username that has no
\* account goes on to insert the account {username, hash of the password,
\* empty ledger} and returns True; for a username that is not alphanumeric
\* it returns False and creates nothing.
C13_NewAlnumUsernameRegisters ==
    [][\A p \in Sessions :
          /\ (/\ BeginsAuth(p)
              /\ UserIdx(users, BegunCall(p).username) = 0
              /\ isalnum(BegunCall(p).username)) =>
                 pc'[p] = "au_insert" /\ users' = users
          /\ (BeginsAuth(p) /\ ~isalnum(BegunCall(p).username)) =>
                 /\ pc'[p] = "idle"
                 /\ last'.kind = "AuthFalse"
                 /\ users' = users
          /\ RegistersAccount(p)]_vars

\* the first call for "c" has just returned True, and the account with the
\* hash of "pw1" and an empty ledger is the last of the collection
C13_Witness ==
    /\ last.call.op = "auth"
    /\ last.call.username = carol
    /\ last.kind = "AuthTrue"
    /\ "insert_user" \in last.steps
    /\ users[Len(users)] = [username |-> carol, password_hash |-> "5e88",
                            uploads |-> <<>>]

\* session p, running cleanup_invalid_images, takes this step
CleanupSteps(p) ==
    \/ pc[p] = "idle" /\ call'[p].op = "cleanup"
    \/ pc[p] = "idle" /\ pc'[p] = "idle" /\ last'.session = p
          /\ last'.call.op = "cleanup"
    \/ /\ pc[p] \in {"cl_probe", "cl_delete", "cl_write"}
       /\ pc'[p] # pc[p] \/ idx'[p] # idx[p]

\* the user whose cleanup p runs on this step
CleanupUser(p) ==
    IF pc[p] = "idle" THEN BegunCall(p).username ELSE call[p].username

\* C14: no step of cleanup_invalid_images(u) adds or removes an account or
\* changes the ledger or the password hash of an account of another user;
\* the step that deletes an index entry changes no account at all.
C14_CleanupFrame ==
    [][\A p \in Sessions :
          CleanupSteps(p) =>
              /\ Len(users') = Len(users)
              /\ \A i \in 1..Len(users) :
                    /\ users'[i].username = users[i].username
                    /\ users'[i].password_hash = users[i].password_hash
                    /\ users[i].username # CleanupUser(p) =>
                           users'[i] = users[i]
              /\ pc[p] = "cl_delete" => users' = users]_vars

\* a cleanup of "al" has just returned after deleting the index entry of a
\* fingerprint that the ledger of "b0" still references
C14_Witness ==
    /\ last.call.op = "cleanup"
    /\ last.call.username = alice
    /\ "delete" \in last.steps
    /\ \E r \in last.dropped :
          /\ HashIdx(hashes, r.hash) = 0
          /\ \E j \in 1..Len(Ledger(users, bob)) :
                Ledger(users, bob)[j].hash = r.hash

\* the step on which p's save returns: the URL is that of the object now
\* stored under the name fingerprint__compressed.jpg
SaveReturns(p) ==
    (pc[p] = "up_save" /\ pc'[p] = "up_insert") =>
        /\ url'[p] \in storage'
        /\ url'[p].name = final_name_of(calculate_hash(call[p].image))
        /\ steps'[p] \cap SaveStages # {}

\* C15: an entry enters image_hashes only on the insert step of an upload
\* whose save has returned, and carries the fingerprint, the name
\* fingerprint__compressed.jpg and the URL that save returned; an upload on
\* the new-content path writes neither image_hashes nor users while its save
\* has not returned, and writes the ledger only after the index.
C15_IndexAfterSave ==
    [][/\ Len(hashes') > Len(hashes) =>
             \E p \in Sessions :
                 /\ pc[p] = "up_insert" /\ pc'[p] = "up_update"
                 /\ steps[p] \cap SaveStages # {}
                 /\ url[p] \in storage
                 /\ hashes' = Append(hashes,
                       [hash |-> calculate_hash(call[p].image),
                        filename |-> url[p].name,
                        url |-> url[p],
                        uploaded_by |-> call[p].username])
       /\ \A p \in Sessions :
             /\ SaveReturns(p)
             /\ pc[p] = "up_insert" => url'[p] = url[p]
             /\ (pc[p] = "up_save" /\ pc'[p] # "up_save") =>
                    UNCHANGED <<hashes, users>>
             /\ (pc[p] = "up_insert" /\ pc'[p] # "up_insert") =>
                    UNCHANGED users
             /\ (pc[p] = "up_update" /\ pc'[p] # "up_update") =>
                    "insert" \in steps[p] /\ steps[p] \cap SaveStages # {}]_vars

\* an upload saved on Cloudinary has just inserted its index entry, with
\* the URL the save returned
C15_Witness ==
    \E p \in Sessions :
        /\ pc[p] = "up_update"
        /\ url[p].backend = "cloudinary"
        /\ hashes # <<>>
        /\ hashes[Len(hashes)].url = url[p]
        /\ url[p] \in storage

\* an HTTP success status
HttpSuccess(status) == status \in 200..299

\* the probe step of p's cleanup got an answer (requests.get returned): the
\* loop kept the record or went on to delete its index entry
ProbeReturned(p) ==
    \/ pc'[p] = "cl_delete"
    \/ Len(valid_uploads'[p]) > Len(valid_uploads[p])

\* C16: in a cleanup of u that no other operation overlaps, each probe
\* step keeps the record (appends it to the records kept so far) exactly
\* when requests.get returned a success status for its URL; the final write
\* comes after every record of the ledger read has been probed and makes
\* the kept records, in the order of the prior ledger, u's ledger.
C16_KeepsSuccessfulProbes ==
    [][\A p \in Sessions :
          /\ (/\ pc[p] = "cl_probe"
              /\ pc'[p] # "cl_probe" \/ idx'[p] # idx[p]
              /\ solo[p]) =>
                 LET img == uploads[p][idx[p]]
                 IN  IF ProbeReturned(p) /\ HttpSuccess(reach[img.url])
                     THEN valid_uploads'[p] = Append(valid_uploads[p], img)
                     ELSE valid_uploads'[p] = valid_uploads[p]
          /\ (pc[p] = "cl_write" /\ pc'[p] = "idle" /\ solo[p]) =>
                 /\ idx[p] = Len(uploads[p]) + 1
                 /\ uploads[p] = Ledger(users, call[p].username)
                 /\ Ledger(users', call[p].username) = valid_uploads[p]]_vars

\* no account's uploads array holds the same record twice
NoRepeatedRecord ==
    \A i \in 1..Len(users) :
        \A j, k \in 1..Len(users[i].uploads) :
            users[i].uploads[j] = users[i].uploads[k] => j = k

\* C17: no step leaves a ledger (all empty at first) holding the same
\* record {filename, url, hash} twice, and the update_one of an upload whose record is already in the caller's
\* ledger leaves the users collection as it was.
C17_LedgerIsSet ==
    [][/\ NoRepeatedRecord'
       /\ \A p \in Sessions :
             (/\ pc[p] \in {"up_dup", "up_update"}
              /\ pc'[p] = "idle"
              /\ InSeq(UploadRecord(calculate_hash(call[p].image), url[p]),
                       Ledger(users, call[p].username))) =>
                 users' = users]_vars

\* "al" has uploaded the same bytes twice, the second call has just been
\* answered Duplicate, and the ledger holds the one record
C17_Witness ==
    /\ last.kind = "Duplicate"
    /\ last.call.username = alice
    /\ nops = 2
    /\ \A p \in Sessions : pc[p] = "idle"
    /\ Len(hashes) = 1
    /\ hashes[1].uploaded_by = alice
    /\ Ledger(users, alice) =
           <<UploadRecord(calculate_hash(last.call.image), last.url)>>

UploadOutcomes ==
    {"Success", "Duplicate", "InvalidFormat", "ProcessingFailed",
     "UploadFailed"}
FailureOutcomes == {"InvalidFormat", "ProcessingFailed", "UploadFailed"}

\* C18 (what it says of a call that ends): whether its backend and database
\* calls return or raise, an upload_image call ends with one of Success,
\* Duplicate, InvalidFormat, ProcessingFailed and UploadFailed, and the step
\* on which a failure outcome is decided, the last of the call, writes
\* neither the index nor a ledger, and the backends only when it is the
\* save that raised.
C18_UploadOutcome ==
    [][last'.call.op = "upload" =>
          /\ last'.kind \in UploadOutcomes
          /\ pc'[last'.session] = "idle"
          /\ last'.kind \in FailureOutcomes =>
                /\ UNCHANGED <<hashes, users>>
                /\ storage' # storage => pc[last'.session] = "up_save"]_vars

\* C19: the users collection never holds two accounts with the same
\* username.
C19_OneAccountPerUsername ==
    \A i, j \in 1..Len(users) :
        users[i].username = users[j].username => i = j

\* the records of all ledgers
AllRecords ==
    UNION {{users[i].uploads[j] : j \in 1..Len(users[i].uploads)} :
              i \in 1..Len(users)}

\* C20: any two records with the same fingerprint, in one ledger or in
\* two, carry the same URL, and that URL is the url of the index entry of
\* the fingerprint (the one find_one returns) when there is one.
C20_OneUrlPerFingerprint ==
    \A r \in AllRecords :
        /\ \A q \in AllRecords : q.hash = r.hash => q.url = r.url
        /\ HashIdx(hashes, r.hash) # 0 =>
              hashes[HashIdx(hashes, r.hash)].url = r.url

====
